---- MODULE Spec2Model ----
(***************************************************************************)
(* The UNUSED_IO_AMOUNT late lint pass of clippy                           *)
(* (clippy_lints/src/unused_io_amount.rs).                                 *)
(*                                                                         *)
(* The driver walks the statements of a body and calls check_stmt on each. *)
(* check_stmt filters the statement kind, matches one of two discard       *)
(* shapes and hands the inner expression to check_method_call, which asks  *)
(* the trait resolver whether the call goes through io::Read / io::Write   *)
(* and emits at most one lint through span_lint.                           *)
(*                                                                         *)
(* HIR nodes are records.  An expression has a kind, a span and the fields *)
(* of its kind; the answers of the resolver (match_trait_method) and of    *)
(* the try-sugar detector (is_try) are carried on the node they are asked  *)
(* about.  A span is the position of the node in the statement: the path   *)
(* of child indices leading to it, so that distinct nodes of one statement *)
(* have distinct spans.  Rust's args[0] is args[1] here.                   *)
(***************************************************************************)
EXTENDS Integers, Sequences, FiniteSets

VARIABLES body, idx, self, sink, handed, panicked

vars == <<body, idx, self, sink, handed, panicked>>

(***************************************************************************)
(* Bounds of the model.                                                    *)
(***************************************************************************)
\* nesting depth of wrapping expressions around an innermost call or atom
MaxDepth == 2
\* number of arguments following the first argument of a plain call
MaxArgs == 1
\* number of statements of a body in SpecBody
MaxBody == 3

(***************************************************************************)
(* Known paths (utils::paths) and the lint.                                *)
(***************************************************************************)
IO_READ == <<"std", "io", "Read">>
IO_WRITE == <<"std", "io", "Write">>
TRY_INTO_RESULT == <<"std", "ops", "Try", "into_result">>

UNUSED_IO_AMOUNT == "unused_io_amount"

(***************************************************************************)
(* The lint pass is a unit struct: it has a single value.                  *)
(***************************************************************************)
UnusedIoAmount == [lints |-> {UNUSED_IO_AMOUNT}]

(***************************************************************************)
(* HIR expressions, rooted at span sp.                                     *)
(***************************************************************************)
Path(p, sp) == [kind |-> "Path", span |-> sp, path |-> p]

Other(sp) == [kind |-> "Other", span |-> sp]

MethodCall(id, rt, wt, as, sp) ==
    [kind |-> "MethodCall", span |-> sp, ident |-> id, args |-> as,
     read_trait |-> rt, write_trait |-> wt]

Call(f, as, sp) == [kind |-> "Call", span |-> sp, func |-> f, args |-> as]

Match(r, t, sp) == [kind |-> "Match", span |-> sp, res |-> r, is_try |-> t]

\* names of the methods of the decision table
TableNames == {"read", "read_vectored", "write", "write_vectored"}

\* methods of Result, with the number of explicit arguments each takes
ResultNames == {"expect", "unwrap", "unwrap_or", "unwrap_or_else", "ok"}

Arity(n) == IF n \in {"unwrap", "ok"} THEN 0 ELSE 1

\* k explicit arguments, at child positions from+1 .. from+k of the node at sp
Explicit(k, from, sp) == [i \in 1..k |-> Other(Append(sp, from + i))]

\* the callee of a plain call: the conversion function, another function,
\* or an expression that is not a path
Funcs == {"into_result", "foo", "closure"}

Func(f, sp) ==
    IF f = "into_result" THEN Path(TRY_INTO_RESULT, sp)
    ELSE IF f = "foo" THEN Path(<<"foo">>, sp)
    ELSE Other(sp)

\* expressions without a wrapped sub-expression: a local, a plain call
\* without arguments, and a method call on a local: r.read(buf) and the
\* like with every answer the resolver can give, and r.flush() through
\* io::Write
Atoms ==
    {[atom |-> "local"], [atom |-> "flush"]}
    \cup [atom : {"call"}, func : Funcs]
    \cup [atom : {"io"}, ident : TableNames, read_trait : BOOLEAN, write_trait : BOOLEAN]

Atom(a, sp) ==
    IF a.atom = "local" THEN Path(<<"r">>, sp)
    ELSE IF a.atom = "call" THEN Call(Func(a.func, Append(sp, 0)), <<>>, sp)
    ELSE IF a.atom = "flush"
    THEN MethodCall("flush", FALSE, TRUE, <<Path(<<"r">>, Append(sp, 1))>>, sp)
    ELSE MethodCall(a.ident, a.read_trait, a.write_trait,
                    <<Path(<<"r">>, Append(sp, 1))>> \o Explicit(1, 1, sp), sp)

\* the ways an expression wraps a sub-expression c: c as the receiver of a
\* method of Result, c as the explicit argument of one, c as the receiver
\* of an io method resolved to the trait that declares it, c as the first
\* argument of a plain call, c as the scrutinee of a match
Wrappers ==
    [wrap : {"receiver"}, ident : ResultNames]
    \cup [wrap : {"io"}, ident : TableNames]
    \cup [wrap : {"argument"}, ident : {m \in ResultNames : Arity(m) = 1}]
    \cup [wrap : {"call"}, func : Funcs, more : 0..MaxArgs]
    \cup [wrap : {"match"}, is_try : BOOLEAN]

\* the child position of the wrapped sub-expression
Hole(w) == IF w.wrap = "argument" THEN 2 ELSE 1

Wrap(w, c, sp) ==
    IF w.wrap = "receiver"
    THEN MethodCall(w.ident, FALSE, FALSE, <<c>> \o Explicit(Arity(w.ident), 1, sp), sp)
    ELSE IF w.wrap = "argument"
    THEN MethodCall(w.ident, FALSE, FALSE, <<Path(<<"r">>, Append(sp, 1)), c>>, sp)
    ELSE IF w.wrap = "io"
    THEN MethodCall(w.ident, w.ident \in {"read", "read_vectored"},
                    w.ident \in {"write", "write_vectored"}, <<c>> \o Explicit(1, 1, sp), sp)
    ELSE IF w.wrap = "call"
    THEN Call(Func(w.func, Append(sp, 0)), <<c>> \o Explicit(w.more, 1, sp), sp)
    ELSE Match(c, w.is_try, sp)

\* the expression at span sp that applies the wrappers ws, outermost first,
\* to the atom a
RECURSIVE Build(_, _, _)
Build(ws, a, sp) ==
    IF ws = <<>> THEN Atom(a, sp)
    ELSE Wrap(Head(ws), Build(Tail(ws), a, Append(sp, Hole(Head(ws)))), sp)

(***************************************************************************)
(* HIR statements.                                                         *)
(***************************************************************************)
Stmt(k, e) == [kind |-> k, expr |-> e]

Item == [kind |-> "Item"]

(***************************************************************************)
(* utils: the services check_stmt and check_method_call consume.           *)
(***************************************************************************)
is_try(expr) == expr.is_try

match_qpath(path, segments) == path = segments

match_trait_method(expr, path) ==
    IF path = IO_READ THEN expr.read_trait
    ELSE IF path = IO_WRITE THEN expr.write_trait
    ELSE FALSE

span_lint(lint, sp, msg) == <<[lint |-> lint, span |-> sp, msg |-> msg]>>

(***************************************************************************)
(* check_method_call: the diagnostics it emits for (call, expr).           *)
(* A message is the sequence of its pieces: the pieces at odd positions    *)
(* are plain text, those at even positions are the text of a code span     *)
(* (written between backquotes in the source, a character a TLA+ string    *)
(* cannot hold).                                                           *)
(***************************************************************************)
READ_MSG == <<"read amount is not handled. Use ", "Read::read_exact", " instead">>

READ_VECTORED_MSG == <<"read amount is not handled">>

WRITE_MSG == <<"written amount is not handled. Use ", "Write::write_all", " instead">>

WRITE_VECTORED_MSG == <<"written amount is not handled">>

\* variant: the classifier goes by the method name alone
check_method_call_by_name(call, expr) ==
    IF call.kind = "MethodCall"
    THEN LET symbol == call.ident
         IN  IF symbol = "read"
             THEN span_lint(UNUSED_IO_AMOUNT, expr.span, READ_MSG)
             ELSE IF symbol = "read_vectored"
             THEN span_lint(UNUSED_IO_AMOUNT, expr.span, READ_VECTORED_MSG)
             ELSE IF symbol = "write"
             THEN span_lint(UNUSED_IO_AMOUNT, expr.span, WRITE_MSG)
             ELSE IF symbol = "write_vectored"
             THEN span_lint(UNUSED_IO_AMOUNT, expr.span, WRITE_VECTORED_MSG)
             ELSE <<>>
    ELSE <<>>

\* variant: the message is chosen by the interface, read before write
check_method_call_by_trait(call, expr) ==
    IF call.kind = "MethodCall"
    THEN LET symbol == call.ident
             read_trait == match_trait_method(call, IO_READ)
             write_trait == match_trait_method(call, IO_WRITE)
             listed == (read_trait /\ symbol \in {"read", "read_vectored"})
                       \/ (write_trait /\ symbol \in {"write", "write_vectored"})
             vectored == symbol \in {"read_vectored", "write_vectored"}
         IN  IF listed /\ read_trait
             THEN span_lint(UNUSED_IO_AMOUNT, expr.span,
                            IF vectored THEN READ_VECTORED_MSG ELSE READ_MSG)
             ELSE IF listed
             THEN span_lint(UNUSED_IO_AMOUNT, expr.span,
                            IF vectored THEN WRITE_VECTORED_MSG ELSE WRITE_MSG)
             ELSE <<>>
    ELSE <<>>

\* variant: the diagnostic is attached to the inner call
check_method_call_inner_span(call, expr) ==
    IF call.kind = "MethodCall"
    THEN LET symbol == call.ident
             read_trait == match_trait_method(call, IO_READ)
             write_trait == match_trait_method(call, IO_WRITE)
         IN  IF read_trait /\ symbol = "read"
             THEN span_lint(UNUSED_IO_AMOUNT, call.span, READ_MSG)
             ELSE IF read_trait /\ symbol = "read_vectored"
             THEN span_lint(UNUSED_IO_AMOUNT, call.span, READ_VECTORED_MSG)
             ELSE IF write_trait /\ symbol = "write"
             THEN span_lint(UNUSED_IO_AMOUNT, call.span, WRITE_MSG)
             ELSE IF write_trait /\ symbol = "write_vectored"
             THEN span_lint(UNUSED_IO_AMOUNT, call.span, WRITE_VECTORED_MSG)
             ELSE <<>>
    ELSE <<>>

check_method_call(call, expr) ==
    IF call.kind = "MethodCall"
    THEN LET symbol == call.ident
             read_trait == match_trait_method(call, IO_READ)
             write_trait == match_trait_method(call, IO_WRITE)
         IN  IF read_trait /\ symbol = "read"
             THEN span_lint(UNUSED_IO_AMOUNT, expr.span, READ_MSG)
             ELSE IF read_trait /\ symbol = "read_vectored"
             THEN span_lint(UNUSED_IO_AMOUNT, expr.span, READ_VECTORED_MSG)
             ELSE IF write_trait /\ symbol = "write"
             THEN span_lint(UNUSED_IO_AMOUNT, expr.span, WRITE_MSG)
             ELSE IF write_trait /\ symbol = "write_vectored"
             THEN span_lint(UNUSED_IO_AMOUNT, expr.span, WRITE_VECTORED_MSG)
             ELSE <<>>
    ELSE <<>>

(***************************************************************************)
(* The outcome of one call of check_stmt: the pass afterwards, the         *)
(* diagnostics handed to span_lint, the (call, expr) pairs handed to       *)
(* check_method_call, and whether an index was out of bounds.              *)
(***************************************************************************)
Returned(this) ==
    [self |-> this, lints |-> <<>>, calls |-> <<>>, panicked |-> FALSE]

Panicked(this) ==
    [self |-> this, lints |-> <<>>, calls |-> <<>>, panicked |-> TRUE]

Checked(this, call, expr) ==
    [self |-> this, lints |-> check_method_call(call, expr),
     calls |-> <<[call |-> call, expr |-> expr]>>, panicked |-> FALSE]

\* args[i] of Rust, checked against the length of args
Index(this, args, i, expr) ==
    IF i < Len(args) THEN Checked(this, args[i + 1], expr) ELSE Panicked(this)

\* variant: the unwrap family classifies args[1], the first explicit argument
check_expr_second_arg(this, expr) ==
    IF expr.kind = "Match" /\ is_try(expr)
    THEN LET res == expr.res
         IN  IF res.kind = "Call"
             THEN IF res.func.kind = "Path"
                  THEN IF match_qpath(res.func.path, TRY_INTO_RESULT) /\ Len(res.args) = 1
                       THEN Index(this, res.args, 0, expr)
                       ELSE Returned(this)
                  ELSE Returned(this)
             ELSE Checked(this, res, expr)
    ELSE IF expr.kind = "MethodCall"
    THEN IF expr.ident \in {"expect", "unwrap", "unwrap_or", "unwrap_or_else"}
         THEN Index(this, expr.args, 1, expr)
         ELSE Returned(this)
    ELSE Returned(this)

\* variant: the argument of every plain call of one argument is classified
check_expr_any_call(this, expr) ==
    IF expr.kind = "Match" /\ is_try(expr)
    THEN LET res == expr.res
         IN  IF res.kind = "Call"
             THEN IF Len(res.args) = 1
                  THEN Index(this, res.args, 0, expr)
                  ELSE Returned(this)
             ELSE Checked(this, res, expr)
    ELSE IF expr.kind = "MethodCall"
    THEN IF expr.ident \in {"expect", "unwrap", "unwrap_or", "unwrap_or_else"}
         THEN Index(this, expr.args, 0, expr)
         ELSE Returned(this)
    ELSE Returned(this)

\* variant: every match counts as try sugar
check_expr_any_match(this, expr) ==
    IF expr.kind = "Match"
    THEN LET res == expr.res
         IN  IF res.kind = "Call"
             THEN IF res.func.kind = "Path"
                  THEN IF match_qpath(res.func.path, TRY_INTO_RESULT) /\ Len(res.args) = 1
                       THEN Index(this, res.args, 0, expr)
                       ELSE Returned(this)
                  ELSE Returned(this)
             ELSE Checked(this, res, expr)
    ELSE IF expr.kind = "MethodCall"
    THEN IF expr.ident \in {"expect", "unwrap", "unwrap_or", "unwrap_or_else"}
         THEN Index(this, expr.args, 0, expr)
         ELSE Returned(this)
    ELSE Returned(this)

\* variant: the unwrap family classifies its last argument
check_expr_last_arg(this, expr) ==
    IF expr.kind = "Match" /\ is_try(expr)
    THEN LET res == expr.res
         IN  IF res.kind = "Call"
             THEN IF res.func.kind = "Path"
                  THEN IF match_qpath(res.func.path, TRY_INTO_RESULT) /\ Len(res.args) = 1
                       THEN Index(this, res.args, 0, expr)
                       ELSE Returned(this)
                  ELSE Returned(this)
             ELSE Checked(this, res, expr)
    ELSE IF expr.kind = "MethodCall"
    THEN IF expr.ident \in {"expect", "unwrap", "unwrap_or", "unwrap_or_else"}
         THEN Index(this, expr.args, Len(expr.args) - 1, expr)
         ELSE Returned(this)
    ELSE Returned(this)

\* variant: a method call outside the unwrap family is classified itself
check_expr_bare(this, expr) ==
    IF expr.kind = "Match" /\ is_try(expr)
    THEN LET res == expr.res
         IN  IF res.kind = "Call"
             THEN IF res.func.kind = "Path"
                  THEN IF match_qpath(res.func.path, TRY_INTO_RESULT) /\ Len(res.args) = 1
                       THEN Index(this, res.args, 0, expr)
                       ELSE Returned(this)
                  ELSE Returned(this)
             ELSE Checked(this, res, expr)
    ELSE IF expr.kind = "MethodCall"
    THEN IF expr.ident \in {"expect", "unwrap", "unwrap_or", "unwrap_or_else"}
         THEN Index(this, expr.args, 0, expr)
         ELSE Checked(this, expr, expr)
    ELSE Returned(this)

\* the second match of check_stmt, on the kind of the expression
check_expr(this, expr) ==
    IF expr.kind = "Match" /\ is_try(expr)
    THEN LET res == expr.res
         IN  IF res.kind = "Call"
             THEN IF res.func.kind = "Path"
                  THEN IF match_qpath(res.func.path, TRY_INTO_RESULT) /\ Len(res.args) = 1
                       THEN Index(this, res.args, 0, expr)
                       ELSE Returned(this)
                  ELSE Returned(this)
             ELSE Checked(this, res, expr)
    ELSE IF expr.kind = "MethodCall"
    THEN IF expr.ident \in {"expect", "unwrap", "unwrap_or", "unwrap_or_else"}
         THEN Index(this, expr.args, 0, expr)
         ELSE Returned(this)
    ELSE Returned(this)

\* variant: the expression of a let statement is matched as well
check_stmt_any_kind(this, s) ==
    IF s.kind \in {"Semi", "Expr", "Local"}
    THEN check_expr(this, s.expr)
    ELSE Returned(this)

\* variant: the pass remembers that it has reported, and reports once
check_stmt_once(this, s) ==
    LET o == IF s.kind \in {"Semi", "Expr"}
             THEN check_expr(this, s.expr)
             ELSE Returned(this)
    IN  IF o.lints = <<>> THEN o
        ELSE IF this.lints = {} THEN [o EXCEPT !.lints = <<>>]
        ELSE [o EXCEPT !.self = [lints |-> {}]]

\* the first match of check_stmt, on the kind of the statement
check_stmt(this, s) ==
    IF s.kind \in {"Semi", "Expr"}
    THEN check_expr(this, s.expr)
    ELSE Returned(this)

(***************************************************************************)
(* The driver: one body, visited statement by statement.  Spec analyses    *)
(* every statement of the bounded shapes, alone in its body.               *)
(***************************************************************************)
Init ==
    /\ \/ \E k \in {"Semi", "Expr", "Local"}, d \in 0..MaxDepth :
              \E ws \in [1..d -> Wrappers], a \in Atoms :
                 body = <<Stmt(k, Build(ws, a, <<0>>))>>
       \/ body = <<Item>>
    /\ idx = 1
    /\ self = UnusedIoAmount
    /\ sink = <<>>
    /\ handed = <<>>
    /\ panicked = FALSE

CheckStmt ==
    /\ ~panicked
    /\ idx <= Len(body)
    /\ LET o == check_stmt(self, body[idx])
       IN  /\ self' = o.self
           /\ sink' = Append(sink, o.lints)
           /\ handed' = o.calls
           /\ panicked' = o.panicked
    /\ idx' = idx + 1
    /\ UNCHANGED body

Next == CheckStmt

Spec == Init /\ [][Next]_vars

(***************************************************************************)
(* SpecBody analyses bodies of up to MaxBody statements, in every order    *)
(* and with repetitions, drawn from a few statements.                      *)
(***************************************************************************)
Try == [wrap |-> "match", is_try |-> TRUE]

IntoResult == [wrap |-> "call", func |-> "into_result", more |-> 0]

Unwrap == [wrap |-> "receiver", ident |-> "unwrap"]

Io(n, rt, wt) == [atom |-> "io", ident |-> n, read_trait |-> rt, write_trait |-> wt]

BodyStmts ==
    {Stmt("Semi", Build(<<Try, IntoResult>>, Io("read", TRUE, FALSE), <<0>>)),
     Stmt("Semi", Build(<<Try, IntoResult>>, Io("read", FALSE, FALSE), <<0>>)),
     Stmt("Semi", Build(<<Unwrap>>, Io("write", FALSE, TRUE), <<0>>)),
     Stmt("Expr", Build(<<Try>>, Io("write_vectored", TRUE, TRUE), <<0>>)),
     Stmt("Semi", Build(<<>>, Io("read", TRUE, FALSE), <<0>>)),
     Stmt("Local", Build(<<Try, IntoResult>>, Io("read", TRUE, FALSE), <<0>>)),
     Item}

InitBody ==
    /\ \E n \in 1..MaxBody : body \in [1..n -> BodyStmts]
    /\ idx = 1
    /\ self = UnusedIoAmount
    /\ sink = <<>>
    /\ handed = <<>>
    /\ panicked = FALSE

SpecBody == InitBody /\ [][Next]_vars

(***************************************************************************)
(* Properties.  They speak of the statement check_stmt was last called on, *)
(* the diagnostics it emitted and what it handed to check_method_call.     *)
(***************************************************************************)
Done == idx > 1

Cur == body[idx - 1]

Lints == sink[idx - 1]

Filtered == Done /\ Cur.kind \in {"Semi", "Expr"}

UnwrapFamily == {"expect", "unwrap", "unwrap_or", "unwrap_or_else"}

\* e is a method call in a row of the decision table
Listed(e) ==
    /\ e.kind = "MethodCall"
    /\ \/ e.read_trait /\ e.ident \in {"read", "read_vectored"}
       \/ e.write_trait /\ e.ident \in {"write", "write_vectored"}

\* e is a plain call of the conversion function with exactly one argument
Conversion(e) ==
    /\ e.kind = "Call"
    /\ e.func.kind = "Path"
    /\ e.func.path = TRY_INTO_RESULT
    /\ Len(e.args) = 1

TrySugar(e) == e.kind = "Match" /\ e.is_try

UnwrapCall(e) == e.kind = "MethodCall" /\ e.ident \in UnwrapFamily

\* C1: a statement gets exactly one diagnostic when the expression a discard
\* shape handed to check_method_call is a method call named read or
\* read_vectored through Read, or write or write_vectored through Write, and
\* none in every other case; never more than one.
C1_OneIffListed ==
    Done =>
        /\ Len(Lints) <= 1
        /\ Len(handed) <= 1
        /\ Len(Lints) = 1 <=> (handed # <<>> /\ Listed(handed[1].call))

C1_Witness ==
    /\ Done
    /\ Len(Lints) = 1
    /\ handed # <<>>
    /\ handed[1].call.ident = "write"
    /\ handed[1].call.write_trait

\* C2: a let statement or an item gets no diagnostic and nothing of it is
\* classified, whatever it contains; a statement of either expression form
\* (Semi, Expr) whose expression is a discard shape over a call that is not
\* a plain call has that call classified.
C2_OnlyExprStmts ==
    Done =>
        /\ Cur.kind \notin {"Semi", "Expr"} => Lints = <<>> /\ handed = <<>>
        /\ \A k \in {"Semi", "Expr"} :
              (Cur.kind = k /\ UnwrapCall(Cur.expr)) => handed # <<>>
        /\ \A k \in {"Semi", "Expr"} :
              (Cur.kind = k /\ TrySugar(Cur.expr) /\ Conversion(Cur.expr.res)
                 /\ Listed(Cur.expr.res.args[1])) => Len(Lints) = 1

C2_Witness ==
    /\ Done
    /\ Cur.kind = "Local"
    /\ TrySugar(Cur.expr)
    /\ Conversion(Cur.expr.res)
    /\ Listed(Cur.expr.res.args[1])
    /\ Lints = <<>>

\* the text of the table of the specification, by method name
TableText ==
    [n \in TableNames |->
       IF n = "read"
       THEN <<"read amount is not handled. Use the exact-fill read operation instead">>
       ELSE IF n = "read_vectored" THEN <<"read amount is not handled">>
       ELSE IF n = "write"
       THEN <<"written amount is not handled. Use the exact-fill write operation instead">>
       ELSE <<"written amount is not handled">>]

\* the text with the code spans Read::read_exact and Write::write_all
SourceText ==
    [n \in TableNames |->
       IF n = "read"
       THEN <<"read amount is not handled. Use ", "Read::read_exact", " instead">>
       ELSE IF n = "read_vectored" THEN <<"read amount is not handled">>
       ELSE IF n = "write"
       THEN <<"written amount is not handled. Use ", "Write::write_all", " instead">>
       ELSE <<"written amount is not handled">>]

\* C3 as stated: the text of every diagnostic is the text the table of the
\* specification gives for the name of the classified method.
C3_TableText ==
    (Done /\ Lints # <<>>) =>
        /\ handed # <<>>
        /\ handed[1].call.ident \in TableNames
        /\ Lints[1].msg = TableText[handed[1].call.ident]

\* C3 as amended: the text of every diagnostic is chosen by the name of the
\* classified method, also when the call goes through both interfaces: read
\* and write name the code spans Read::read_exact and Write::write_all in
\* their suggestion, the vectored names carry no suggestion.
C3_SourceText ==
    (Done /\ Lints # <<>>) =>
        /\ handed # <<>>
        /\ handed[1].call.ident \in TableNames
        /\ Lints[1].msg = SourceText[handed[1].call.ident]
        /\ handed[1].call.ident \in {"read_vectored", "write_vectored"}
              => Len(Lints[1].msg) = 1

C3_Witness ==
    /\ Done
    /\ Lints # <<>>
    /\ handed[1].call.ident = "write"
    /\ handed[1].call.read_trait
    /\ handed[1].call.write_trait
    /\ Lints[1].msg = WRITE_MSG

\* C4: every diagnostic is attached to the span of the outer expression of
\* the statement, not to the span of the classified call, nor to the span
\* of the conversion call around it.
C4_OuterSpan ==
    Done =>
        \A i \in 1..Len(Lints) :
            /\ Lints[i].span = Cur.expr.span
            /\ \A j \in 1..Len(handed) : Lints[i].span # handed[j].call.span
            /\ TrySugar(Cur.expr) => Lints[i].span # Cur.expr.res.span

C4_Witness ==
    /\ Done
    /\ Lints # <<>>
    /\ TrySugar(Cur.expr)
    /\ Conversion(Cur.expr.res)
    /\ Lints[1].span = <<0>>
    /\ handed[1].call.span = <<0, 1, 1>>

\* C5: the diagnostics of a statement are those a pass that has analysed
\* nothing gives it, whatever was analysed before it; equal statements of a
\* body get equal diagnostics; the pass is the same after every call.
C5_Pure ==
    /\ self = UnusedIoAmount
    /\ \A i \in 1..Len(sink) :
          /\ sink[i] = check_stmt(UnusedIoAmount, body[i]).lints
          /\ \A j \in 1..Len(sink) : body[i] = body[j] => sink[i] = sink[j]

C5_Witness ==
    /\ Len(sink) >= 3
    /\ body[1] = body[3]
    /\ body[1] # body[2]
    /\ sink[1] # <<>>
    /\ sink[2] # <<>>
    /\ sink[3] = sink[1]

\* C6: check_stmt never fails: no index is out of bounds, every statement
\* of the body is analysed in turn, and a method call has its receiver as
\* the first element of its arguments.
C6_Total ==
    /\ ~panicked
    /\ Len(sink) = idx - 1
    /\ (Filtered /\ Cur.expr.kind = "MethodCall") => Len(Cur.expr.args) >= 1

C6_Witness ==
    /\ Filtered
    /\ Cur.expr.kind = "MethodCall"
    /\ Cur.expr.ident = "unwrap"
    /\ Len(Cur.expr.args) = 1
    /\ ~panicked

\* the inner call of interest of the propagate-and-discard shape over res
InnerOfInterest(res) == IF Conversion(res) THEN res.args[1] ELSE res

\* C7: for a try-sugar match over res, the diagnostics are those of
\* classifying the single argument when res is a one-argument plain call of
\* the conversion function, and res itself in every other case; when res is
\* a plain call failing the conversion test nothing is classified at all.
C7_InnerOfInterest ==
    (Filtered /\ TrySugar(Cur.expr)) =>
        /\ Lints = check_method_call(InnerOfInterest(Cur.expr.res), Cur.expr)
        /\ Conversion(Cur.expr.res)
              => handed = <<[call |-> Cur.expr.res.args[1], expr |-> Cur.expr]>>
        /\ (Cur.expr.res.kind = "Call" /\ ~Conversion(Cur.expr.res)) => handed = <<>>
        /\ Cur.expr.res.kind # "Call"
              => handed = <<[call |-> Cur.expr.res, expr |-> Cur.expr]>>

C7_Witness ==
    /\ Filtered
    /\ TrySugar(Cur.expr)
    /\ Cur.expr.res.kind = "Call"
    /\ ~Conversion(Cur.expr.res)
    /\ Len(Cur.expr.res.args) = 1
    /\ Listed(Cur.expr.res.args[1])
    /\ Lints = <<>>
    /\ handed = <<>>

\* C8: a match that is not try sugar gets no diagnostic and nothing of it
\* is classified, whatever its scrutinee.
C8_OrdinaryMatch ==
    (Filtered /\ Cur.expr.kind = "Match" /\ ~Cur.expr.is_try) =>
        Lints = <<>> /\ handed = <<>>

C8_Witness ==
    /\ Filtered
    /\ Cur.expr.kind = "Match"
    /\ ~Cur.expr.is_try
    /\ Conversion(Cur.expr.res)
    /\ Listed(Cur.expr.res.args[1])
    /\ Lints = <<>>

\* C9: a method call named expect, unwrap, unwrap_or or unwrap_or_else has
\* its receiver, the first element of its arguments, classified and no
\* other argument; a method call of any other name has nothing classified
\* and gets no diagnostic.
C9_UnwrapFamily ==
    (Filtered /\ Cur.expr.kind = "MethodCall") =>
        IF Cur.expr.ident \in UnwrapFamily
        THEN /\ handed = <<[call |-> Cur.expr.args[1], expr |-> Cur.expr]>>
             /\ Len(Lints) = IF Listed(Cur.expr.args[1]) THEN 1 ELSE 0
        ELSE handed = <<>> /\ Lints = <<>>

C9_Witness ==
    /\ Filtered
    /\ Cur.expr.kind = "MethodCall"
    /\ Cur.expr.ident = "unwrap_or"
    /\ Len(Cur.expr.args) = 2
    /\ Listed(Cur.expr.args[2])
    /\ Lints = <<>>

\* the operand of the outermost discard shape of e, if e is one
Operand(e) ==
    IF TrySugar(e) THEN {InnerOfInterest(e.res)}
    ELSE IF UnwrapCall(e) THEN {e.args[1]}
    ELSE {}

\* C10: a diagnostic is emitted only when a listed call is the operand of
\* the outermost discard shape of the statement; a discard shape over a
\* discard shape, a listed call under any other expression and a listed
\* call that is the statement itself get none.
C10_OneLevel ==
    Filtered =>
        /\ Lints # <<>> => \E o \in Operand(Cur.expr) : Listed(o)
        /\ (\A o \in Operand(Cur.expr) : TrySugar(o) \/ UnwrapCall(o)) => Lints = <<>>
        /\ Listed(Cur.expr) => Lints = <<>>

C10_Witness ==
    /\ Filtered
    /\ UnwrapCall(Cur.expr)
    /\ UnwrapCall(Cur.expr.args[1])
    /\ Listed(Cur.expr.args[1].args[1])
    /\ Lints = <<>>

====
